---------------------------- MODULE Spec2Model ----------------------------
(***************************************************************************)
(* A model of the sitemap model and codec of src/model.go: the URL         *)
(* builder (MakeUrl and its options), the two aggregate roots (URLSet,     *)
(* SitemapIndex) with their Add operations, and GenerateXML /              *)
(* ParseXMLUrlSet / ParseXMLSitemapIndex, which are encoding/xml's         *)
(* MarshalIndent and Unmarshal applied to the struct tags of the source.   *)
(*                                                                         *)
(* Representation.                                                         *)
(*   - a string is a sequence of pieces: a piece is a run of characters    *)
(*     that XML writes as they are, or one character that it escapes (the  *)
(*     texts of times and numbers are written one character per piece);    *)
(*   - a pointer field (to a time.Time or a float64) is <<>> when nil and  *)
(*     <<v>> when set: no operation here writes through a pointer;         *)
(*   - a time.Time is [sec, nsec, off]: Unix seconds, nanoseconds, and the *)
(*     zone offset in seconds east of UTC;                                 *)
(*   - a float64 is the shortest decimal that denotes it, [mant, exp]      *)
(*     (mant * 10^exp, mant without trailing zeros), which is what         *)
(*     strconv.FormatFloat(f, 'g', -1, 64) prints;                         *)
(*   - an XML text is the sequence of its tokens (processing instruction,  *)
(*     start tag with attributes, character data, end tag); character data *)
(*     and attribute values are kept as written, that is escaped; a tag or *)
(*     attribute name is the sequence of its colon-separated segments.     *)
(***************************************************************************)
EXTENDS Integers, Sequences, FiniteSets, TLC

VARIABLES
    now,          \* the wall clock MakeUrl reads
    url,          \* <<>> or <<u>>: the *URL the last MakeUrl call returned
    urlArgs,      \* that call: [loc, options, clock]
    set,          \* the URLSet
    setXml,       \* <<>> or <<r>>: what set.GenerateXML() last returned
    setParsed,    \* <<>> or <<r>>: what ParseXMLUrlSet last returned
    index,        \* the SitemapIndex
    initial,      \* the entries given to MakeSitemapIndex
    added,        \* the arguments of the Add calls on index, in call order
    indexXml,     \* <<>> or <<r>>: what index.GenerateXML() last returned
    indexParsed,  \* <<>> or <<r>>: what ParseXMLSitemapIndex last returned
    content,      \* the text handed to the parsers
    origin        \* where content comes from: [type, full, cut, trailing]

vars == <<now, url, urlArgs, set, setXml, setParsed,
          index, initial, added, indexXml, indexParsed, content, origin>>

(***************************************************************************)
(* Bounds of the model.                                                    *)
(***************************************************************************)
MaxUrls == 2
MaxOptions == 3
MaxTicks == 1
MaxInitial == 1
MaxAdds == 3
MaxEntries == 2

(***************************************************************************)
(* Sequences and strings.                                                  *)
(***************************************************************************)
None == <<>>
Some(v) == <<v>>
IsSet(p) == Len(p) > 0

RECURSIVE Flatten(_)
Flatten(ss) == IF Len(ss) = 0 THEN <<>> ELSE Head(ss) \o Flatten(Tail(ss))

RECURSIVE SeqOfLen(_, _)
SeqOfLen(S, n) ==
    IF n = 0 THEN {<<>>}
    ELSE {Append(s, x) : s \in SeqOfLen(S, n - 1), x \in S}

SeqUpTo(S, n) == UNION {SeqOfLen(S, k) : k \in 0..n}

Digits == <<"0", "1", "2", "3", "4", "5", "6", "7", "8", "9">>
IsDigit(c) == \E d \in 1..10 : Digits[d] = c
DigitVal(c) == (CHOOSE d \in 1..10 : Digits[d] = c) - 1

RECURSIVE Pow10(_)
Pow10(n) == IF n = 0 THEN 1 ELSE 10 * Pow10(n - 1)

\* n >= 0 in decimal, most significant digit first, without padding.
RECURSIVE Itoa(_)
Itoa(n) == IF n < 10 THEN <<Digits[n + 1]>>
           ELSE Append(Itoa(n \div 10), Digits[(n % 10) + 1])

\* n >= 0 in decimal, left-padded with zeros to at least w digits.
RECURSIVE Pad(_, _)
Pad(n, w) == IF w <= 1 /\ n < 10 THEN <<Digits[n + 1]>>
             ELSE Append(Pad(n \div 10, w - 1), Digits[(n % 10) + 1])

AllDigits(s) == \A i \in 1..Len(s) : IsDigit(s[i])

\* The value of a non-empty run of digits.
RECURSIVE Atoi(_)
Atoi(s) == IF Len(s) = 0 THEN 0
           ELSE 10 * Atoi(SubSeq(s, 1, Len(s) - 1)) + DigitVal(s[Len(s)])

RECURSIVE StripTrailingZeros(_)
StripTrailingZeros(s) ==
    IF Len(s) > 0 /\ s[Len(s)] = "0"
    THEN StripTrailingZeros(SubSeq(s, 1, Len(s) - 1))
    ELSE s

\* The first index >= i of s that holds c, or 0.
RECURSIVE IndexFrom(_, _, _)
IndexFrom(s, c, i) ==
    IF i > Len(s) THEN 0
    ELSE IF s[i] = c THEN i
    ELSE IndexFrom(s, c, i + 1)

(***************************************************************************)
(* time.Time and its text form.  encoding/xml writes a time.Time with      *)
(* Time.MarshalText (RFC 3339 with nanoseconds) and reads it with          *)
(* Time.UnmarshalText.                                                     *)
(***************************************************************************)
Time(sec, nsec, off) == [sec |-> sec, nsec |-> nsec, off |-> off]

\* time.Time.UTC(): the same instant, in the UTC location.
UTC(t) == [t EXCEPT !.off = 0]

\* The civil date of a day number (days since 1970-01-01).
CivilFromDays(days) ==
    LET z   == days + 719468
        era == z \div 146097
        doe == z - era * 146097
        yoe == (doe - doe \div 1460 + doe \div 36524 - doe \div 146096) \div 365
        doy == doe - (365 * yoe + yoe \div 4 - yoe \div 100)
        mp  == (5 * doy + 2) \div 153
        m   == IF mp < 10 THEN mp + 3 ELSE mp - 9
    IN  [year  |-> yoe + era * 400 + (IF m <= 2 THEN 1 ELSE 0),
         month |-> m,
         day   |-> doy - (153 * mp + 2) \div 5 + 1]

\* The day number of a civil date.
DaysFromCivil(year, month, day) ==
    LET y   == IF month <= 2 THEN year - 1 ELSE year
        era == y \div 400
        yoe == y - era * 400
        mp  == IF month > 2 THEN month - 3 ELSE month + 9
        doy == (153 * mp + 2) \div 5 + day - 1
        doe == yoe * 365 + yoe \div 4 - yoe \div 100 + doy
    IN  era * 146097 + doe - 719468

IsLeap(y) == y % 4 = 0 /\ (y % 100 # 0 \/ y % 400 = 0)

DaysIn(month, year) ==
    IF month = 2 THEN (IF IsLeap(year) THEN 29 ELSE 28)
    ELSE IF month \in {4, 6, 9, 11} THEN 30 ELSE 31

\* The zone of the layout "Z07:00": Z for UTC, else sign, hours, minutes.
FormatZone(off) ==
    IF off = 0 THEN <<"Z">>
    ELSE LET zone == (IF off < 0 THEN -off ELSE off) \div 60
         IN  <<IF off < 0 THEN "-" ELSE "+">>
             \o Pad(zone \div 60, 2) \o <<":">> \o Pad(zone % 60, 2)

\* The fraction of the layout ".999999999": nothing when zero, else the
\* nanoseconds without trailing zeros.
FormatFraction(nsec) ==
    IF nsec = 0 THEN <<>>
    ELSE <<".">> \o StripTrailingZeros(Pad(nsec, 9))

\* Time.MarshalText: [text, err]; a year outside [0,9999] is an error.
TimeMarshalText(t) ==
    LET local == t.sec + t.off
        date  == CivilFromDays(local \div 86400)
        sod   == local % 86400
    IN  IF date.year < 0 \/ date.year > 9999
        THEN [text |-> <<>>, err |-> TRUE]
        ELSE [text |-> Pad(date.year, 4) \o <<"-">> \o Pad(date.month, 2)
                       \o <<"-">> \o Pad(date.day, 2) \o <<"T">>
                       \o Pad(sod \div 3600, 2) \o <<":">>
                       \o Pad((sod % 3600) \div 60, 2) \o <<":">>
                       \o Pad(sod % 60, 2)
                       \o FormatFraction(t.nsec) \o FormatZone(t.off),
              err  |-> FALSE]

\* The zone at the end of an RFC 3339 text: [ok, off].
ParseZone(z) ==
    IF z = <<"Z">> THEN [ok |-> TRUE, off |-> 0]
    ELSE IF /\ Len(z) = 6
            /\ z[1] \in {"+", "-"}
            /\ z[4] = ":"
            /\ AllDigits(<<z[2], z[3], z[5], z[6]>>)
            /\ Atoi(<<z[2], z[3]>>) < 24
            /\ Atoi(<<z[5], z[6]>>) < 60
    THEN [ok  |-> TRUE,
          off |-> (IF z[1] = "-" THEN -1 ELSE 1)
                  * (Atoi(<<z[2], z[3]>>) * 3600 + Atoi(<<z[5], z[6]>>) * 60)]
    ELSE [ok |-> FALSE, off |-> 0]

\* The length of the run of digits of s that starts at index i.
RECURSIVE DigitRun(_, _)
DigitRun(s, i) ==
    IF i <= Len(s) /\ IsDigit(s[i]) THEN 1 + DigitRun(s, i + 1) ELSE 0

\* Time.UnmarshalText: [val, err].
TimeUnmarshalText(s) ==
    LET bad == [val |-> Time(0, 0, 0), err |-> TRUE]
    IN  IF ~ (/\ Len(s) >= 20
              /\ AllDigits(SubSeq(s, 1, 4)) /\ s[5] = "-"
              /\ AllDigits(SubSeq(s, 6, 7)) /\ s[8] = "-"
              /\ AllDigits(SubSeq(s, 9, 10)) /\ s[11] = "T"
              /\ AllDigits(SubSeq(s, 12, 13)) /\ s[14] = ":"
              /\ AllDigits(SubSeq(s, 15, 16)) /\ s[17] = ":"
              /\ AllDigits(SubSeq(s, 18, 19)))
        THEN bad
        ELSE
        LET year  == Atoi(SubSeq(s, 1, 4))
            month == Atoi(SubSeq(s, 6, 7))
            day   == Atoi(SubSeq(s, 9, 10))
            hour  == Atoi(SubSeq(s, 12, 13))
            min   == Atoi(SubSeq(s, 15, 16))
            sec   == Atoi(SubSeq(s, 18, 19))
            nfrac == IF s[20] = "." THEN DigitRun(s, 21) ELSE 0
            frac  == SubSeq(s, 21, 20 + nfrac)
            nsec  == IF nfrac = 0 THEN 0
                     ELSE IF nfrac >= 9 THEN Atoi(SubSeq(frac, 1, 9))
                     ELSE Atoi(frac) * Pow10(9 - nfrac)
            zfrom == IF s[20] = "." THEN 21 + nfrac ELSE 20
            zone  == ParseZone(SubSeq(s, zfrom, Len(s)))
        IN  IF \/ (s[20] = "." /\ nfrac = 0)
               \/ ~ zone.ok
               \/ month < 1 \/ month > 12
               \/ day < 1 \/ day > DaysIn(month, year)
               \/ hour > 23 \/ min > 59 \/ sec > 59
            THEN bad
            ELSE [val |-> Time(DaysFromCivil(year, month, day) * 86400
                               + hour * 3600 + min * 60 + sec - zone.off,
                               nsec, zone.off),
                  err |-> FALSE]

(***************************************************************************)
(* float64 and its text form.  encoding/xml writes a float64 with          *)
(* strconv.FormatFloat(f, 'g', -1, 64) and reads it with                   *)
(* strconv.ParseFloat of the trimmed text.  The model covers the           *)
(* non-negative values whose decimal exponent is within [-4, 6), which     *)
(* 'g' prints in positional form.                                          *)
(***************************************************************************)
Float(mant, exp) == [mant |-> mant, exp |-> exp]

\* The shortest decimal of a value: no trailing zeros in the mantissa.
RECURSIVE Normalize(_)
Normalize(f) ==
    IF f.mant = 0 THEN Float(0, 0)
    ELSE IF f.mant % 10 = 0 THEN Normalize(Float(f.mant \div 10, f.exp + 1))
    ELSE f

RECURSIVE Zeros(_)
Zeros(n) == IF n <= 0 THEN <<>> ELSE Append(Zeros(n - 1), "0")

FormatFloat(f) ==
    LET ds == Itoa(f.mant)
        dp == Len(ds) + f.exp     \* the digits before the decimal point
    IN  IF f.mant = 0 THEN <<"0">>
        ELSE IF dp <= 0 THEN <<"0", ".">> \o Zeros(-dp) \o ds
        ELSE IF dp >= Len(ds) THEN ds \o Zeros(dp - Len(ds))
        ELSE SubSeq(ds, 1, dp) \o <<".">> \o SubSeq(ds, dp + 1, Len(ds))

IsSpace(c) == c \in {" ", "\n", "\t", "\r"}

RECURSIVE TrimLeft(_)
TrimLeft(s) == IF Len(s) > 0 /\ IsSpace(s[1]) THEN TrimLeft(Tail(s)) ELSE s

RECURSIVE TrimRight(_)
TrimRight(s) ==
    IF Len(s) > 0 /\ IsSpace(s[Len(s)])
    THEN TrimRight(SubSeq(s, 1, Len(s) - 1))
    ELSE s

TrimSpace(s) == TrimRight(TrimLeft(s))

\* strconv.ParseFloat on a positional decimal: [val, err].
ParseFloat(s) ==
    LET dot  == IndexFrom(s, ".", 1)
        int  == IF dot = 0 THEN s ELSE SubSeq(s, 1, dot - 1)
        frac == IF dot = 0 THEN <<>> ELSE SubSeq(s, dot + 1, Len(s))
    IN  IF Len(int) + Len(frac) = 0 \/ ~ AllDigits(int) \/ ~ AllDigits(frac)
        THEN [val |-> Float(0, 0), err |-> TRUE]
        ELSE [val |-> Normalize(Float(Atoi(int \o frac), -Len(frac))),
              err |-> FALSE]

(***************************************************************************)
(* Character data.  "U+0001" stands for a character outside the XML        *)
(* character range and "U+FFFD" for the replacement character; a           *)
(* reference such as &amp; is one piece of the escaped text.               *)
(***************************************************************************)
\* A variant of EscapeChar that writes every character as it is.
EscapeCharRaw(c) == c

\* xml.EscapeText of one piece.
EscapeChar(c) ==
    CASE c = "\"" -> "&#34;"
      [] c = "'"  -> "&#39;"
      [] c = "&"  -> "&amp;"
      [] c = "<"  -> "&lt;"
      [] c = ">"  -> "&gt;"
      [] c = "\t" -> "&#x9;"
      [] c = "\n" -> "&#xA;"
      [] c = "\r" -> "&#xD;"
      [] c = "U+0001" -> "U+FFFD"
      [] OTHER -> c

EscapeText(s) == [i \in 1..Len(s) |-> EscapeChar(s[i])]

\* The references the decoder resolves here: the five predefined entities
\* and the character references EscapeText writes.
Entities ==
    {[name |-> "&lt;", char |-> "<"],
     [name |-> "&gt;", char |-> ">"],
     [name |-> "&amp;", char |-> "&"],
     [name |-> "&apos;", char |-> "'"],
     [name |-> "&quot;", char |-> "\""],
     [name |-> "&#34;", char |-> "\""],
     [name |-> "&#39;", char |-> "'"],
     [name |-> "&#x9;", char |-> "\t"],
     [name |-> "&#xA;", char |-> "\n"],
     [name |-> "&#xD;", char |-> "\r"]}

\* The decoder's reading of one piece of character data: a reference is
\* resolved and a bare carriage return becomes a line feed.
UnescapeChar(c) ==
    IF \E e \in Entities : e.name = c
    THEN (CHOOSE e \in Entities : e.name = c).char
    ELSE IF c = "\r" THEN "\n" ELSE c

\* The decoder's reading of character data: [val, err].  A raw "<" or "&"
\* or a character outside the XML range is a syntax error.
Unescape(s) ==
    [val |-> [i \in 1..Len(s) |-> UnescapeChar(s[i])],
     err |-> \E i \in 1..Len(s) : s[i] \in {"<", "&", "U+0001"}]

(***************************************************************************)
(* Tokens of an XML text.                                                  *)
(***************************************************************************)
Tok(k, name, attrs, data) ==
    [k |-> k, name |-> name, attrs |-> attrs, data |-> data]

ProcInst == Tok("procinst", <<"xml">>, <<>>, <<>>)
StartElement(name, attrs) == Tok("start", name, attrs, <<>>)
EndElement(name) == Tok("end", name, <<>>, <<>>)
CharData(data) == Tok("text", <<>>, <<>>, data)

\* An attribute as written: its name and its escaped value.
Attr(name, value) == [name |-> name, value |-> EscapeText(value)]

\* xml.Header: the XML declaration and a line feed.
Header == <<ProcInst, CharData(<<"\n">>)>>

RECURSIVE Spaces(_)
Spaces(n) == IF n <= 0 THEN <<>> ELSE Append(Spaces(n - 1), " ")

\* MarshalIndent(v, "", "  "): a line feed and two spaces per level before a
\* tag, except before the first tag of the output (the root's start tag).
WriteIndent(depth, isRootStart) ==
    IF isRootStart THEN <<>>
    ELSE <<CharData(<<"\n">> \o Spaces(2 * depth))>>

\* An element that holds only text: no indentation inside it.
TextElement(name, chars, depth) ==
    WriteIndent(depth, FALSE) \o <<StartElement(name, <<>>)>>
    \o (IF Len(chars) = 0 THEN <<>> ELSE <<CharData(EscapeText(chars))>>)
    \o <<EndElement(name)>>

\* An element that holds elements: its end tag is indented when it holds one.
ParentElement(name, attrs, kids, depth) ==
    WriteIndent(depth, depth = 0) \o <<StartElement(name, attrs)>> \o kids
    \o (IF Len(kids) = 0 THEN <<>> ELSE WriteIndent(depth, FALSE))
    \o <<EndElement(name)>>

(***************************************************************************)
(* The entity types and their struct tags.  A tag's name is kept as        *)
(* written: "image:image" is the one name <<"image", "image">>.            *)
(***************************************************************************)
SitemapNS == <<"http://www.sitemaps.org/schemas/sitemap/0.9">>
XhtmlNS == <<"http://www.w3.org/1999/xhtml">>

ChangeFreqAlways == <<"always">>
ChangeFreqHourly == <<"hourly">>
ChangeFreqDaily == <<"daily">>
ChangeFreqWeekly == <<"weekly">>
ChangeFreqMonthly == <<"monthly">>
ChangeFreqYearly == <<"yearly">>
ChangeFreqNever == <<"never">>

SitemapEntry(loc, lastMod) == [Loc |-> loc, LastMod |-> lastMod]

Image(loc, caption, title) ==
    [Loc |-> loc, Caption |-> caption, Title |-> title]

Video(loc, thumb, title, desc, contentLoc, duration, category, tags) ==
    [Loc |-> loc, ThumbnailLoc |-> thumb, Title |-> title,
     Description |-> desc, ContentLoc |-> contentLoc, Duration |-> duration,
     Category |-> category, Tags |-> tags]

Alternate(rel, hrefLang, href) ==
    [Rel |-> rel, HrefLang |-> hrefLang, Href |-> href]

\* The zero value of each struct type.
ZeroURL ==
    [Loc |-> <<>>, LastMod |-> None, ChangeFreq |-> <<>>, Priority |-> None,
     Images |-> <<>>, Videos |-> <<>>, Alternate |-> <<>>]
ZeroURLSet ==
    [XMLNS |-> <<>>, XHTML |-> <<>>, Image |-> <<>>, Video |-> <<>>,
     URLs |-> <<>>]
ZeroSitemapIndex == [xmlns |-> <<>>, Sitemaps |-> <<>>]
ZeroImage == Image(<<>>, <<>>, <<>>)
ZeroVideo == Video(<<>>, <<>>, <<>>, <<>>, <<>>, 0, <<>>, <<>>)
ZeroAlternate == Alternate(<<>>, <<>>, <<>>)

TagSitemapIndex == <<"sitemapindex">>
TagSitemaps == <<"sitemap">>
TagEntryLoc == <<"loc">>
TagEntryLastMod == <<"lastmod">>
TagURLSet == <<"urlset">>
TagXMLNS == <<"xmlns">>
TagXHTML == <<"xmlns", "xhtml">>
TagImageNS == <<"xmlns", "image">>
TagVideoNS == <<"xmlns", "video">>
TagURLs == <<"url">>
TagLoc == <<"loc">>
TagLastMod == <<"lastmod">>
TagChangeFreq == <<"changefreq">>
TagPriority == <<"priority">>
TagImages == <<"image", "image">>
TagVideos == <<"video", "video">>
TagAlternate == <<"xhtml", "link">>
TagImageLoc == <<"image", "loc">>
TagImageCaption == <<"image", "caption">>
TagImageTitle == <<"image", "title">>
TagVideoLoc == <<"video", "loc">>
TagVideoThumbnailLoc == <<"video", "thumbnail_loc">>
TagVideoTitle == <<"video", "title">>
TagVideoDescription == <<"video", "description">>
TagVideoContentLoc == <<"video", "content_loc">>
TagVideoDuration == <<"video", "duration">>
TagVideoCategory == <<"video", "category">>
TagVideoTags == <<"video", "tag">>
TagRel == <<"rel">>
TagHrefLang == <<"hreflang">>
TagHref == <<"href">>

(***************************************************************************)
(* xml.MarshalIndent over the struct tags.  Each operator gives the tokens *)
(* of one field at one depth; a field tagged omitempty is left out when    *)
(* empty (a nil pointer, an empty string, a zero int, an empty slice).     *)
(***************************************************************************)
\* A string field without omitempty.
MarshalString(tag, str, depth) == TextElement(tag, str, depth)

\* A string field tagged omitempty.
MarshalStringOmitEmpty(tag, str, depth) ==
    IF Len(str) = 0 THEN <<>> ELSE TextElement(tag, str, depth)

\* A *time.Time field tagged omitempty (the times here marshal: see
\* MarshalError for the ones that do not).
MarshalTimePtr(tag, ptr, depth) ==
    IF ~ IsSet(ptr) THEN <<>>
    ELSE TextElement(tag, TimeMarshalText(ptr[1]).text, depth)

\* A variant of MarshalFloatPtr without omitempty: a nil pointer is written
\* as an empty element.
MarshalFloatPtrAlways(tag, ptr, depth) ==
    TextElement(tag, IF IsSet(ptr) THEN FormatFloat(ptr[1]) ELSE <<>>, depth)

\* A *float64 field tagged omitempty.
MarshalFloatPtr(tag, ptr, depth) ==
    IF ~ IsSet(ptr) THEN <<>>
    ELSE TextElement(tag, FormatFloat(ptr[1]), depth)

\* An int field tagged omitempty.
MarshalIntOmitEmpty(tag, n, depth) ==
    IF n = 0 THEN <<>> ELSE TextElement(tag, Itoa(n), depth)

\* A []string field: one element per string.
MarshalStrings(tag, strs, depth) ==
    Flatten([i \in 1..Len(strs) |-> TextElement(tag, strs[i], depth)])

MarshalImage(img, depth) ==
    ParentElement(TagImages, <<>>,
        MarshalString(TagImageLoc, img.Loc, depth + 1)
        \o MarshalStringOmitEmpty(TagImageCaption, img.Caption, depth + 1)
        \o MarshalStringOmitEmpty(TagImageTitle, img.Title, depth + 1),
        depth)

MarshalVideo(v, depth) ==
    ParentElement(TagVideos, <<>>,
        MarshalString(TagVideoLoc, v.Loc, depth + 1)
        \o MarshalString(TagVideoThumbnailLoc, v.ThumbnailLoc, depth + 1)
        \o MarshalString(TagVideoTitle, v.Title, depth + 1)
        \o MarshalString(TagVideoDescription, v.Description, depth + 1)
        \o MarshalStringOmitEmpty(TagVideoContentLoc, v.ContentLoc, depth + 1)
        \o MarshalIntOmitEmpty(TagVideoDuration, v.Duration, depth + 1)
        \o MarshalStringOmitEmpty(TagVideoCategory, v.Category, depth + 1)
        \o MarshalStrings(TagVideoTags, v.Tags, depth + 1),
        depth)

MarshalAlternate(a, depth) ==
    ParentElement(TagAlternate,
        <<Attr(TagRel, a.Rel), Attr(TagHrefLang, a.HrefLang),
          Attr(TagHref, a.Href)>>,
        <<>>, depth)

MarshalURL(u, depth) ==
    ParentElement(TagURLs, <<>>,
        MarshalString(TagLoc, u.Loc, depth + 1)
        \o MarshalTimePtr(TagLastMod, u.LastMod, depth + 1)
        \o MarshalStringOmitEmpty(TagChangeFreq, u.ChangeFreq, depth + 1)
        \o MarshalFloatPtr(TagPriority, u.Priority, depth + 1)
        \o Flatten([i \in 1..Len(u.Images) |->
                        MarshalImage(u.Images[i], depth + 1)])
        \o Flatten([i \in 1..Len(u.Videos) |->
                        MarshalVideo(u.Videos[i], depth + 1)])
        \o Flatten([i \in 1..Len(u.Alternate) |->
                        MarshalAlternate(u.Alternate[i], depth + 1)]),
        depth)

\* A string attribute without omitempty is always written.
MarshalAttr(tag, str) == <<Attr(tag, str)>>

\* A string attribute tagged omitempty.
MarshalAttrOmitEmpty(tag, str) ==
    IF Len(str) = 0 THEN <<>> ELSE <<Attr(tag, str)>>

MarshalURLSet(u) ==
    ParentElement(TagURLSet,
        MarshalAttr(TagXMLNS, u.XMLNS)
        \o MarshalAttrOmitEmpty(TagXHTML, u.XHTML)
        \o MarshalAttrOmitEmpty(TagImageNS, u.Image)
        \o MarshalAttrOmitEmpty(TagVideoNS, u.Video),
        Flatten([i \in 1..Len(u.URLs) |-> MarshalURL(u.URLs[i], 1)]),
        0)

MarshalSitemapEntry(e, depth) ==
    ParentElement(TagSitemaps, <<>>,
        MarshalString(TagEntryLoc, e.Loc, depth + 1)
        \o MarshalTimePtr(TagEntryLastMod, e.LastMod, depth + 1),
        depth)

\* A variant of MarshalSitemapIndex that writes the entries last to first.
MarshalSitemapIndexReversed(si) ==
    ParentElement(TagSitemapIndex, <<>>,
        Flatten([i \in 1..Len(si.Sitemaps) |->
                     MarshalSitemapEntry(
                         si.Sitemaps[Len(si.Sitemaps) + 1 - i], 1)]),
        0)

\* The field xmlns is unexported: encoding/xml does not see it.
MarshalSitemapIndex(si) ==
    ParentElement(TagSitemapIndex, <<>>,
        Flatten([i \in 1..Len(si.Sitemaps) |->
                     MarshalSitemapEntry(si.Sitemaps[i], 1)]),
        0)

\* MarshalIndent fails when a time it has to write does not marshal.
MarshalError(ptrs) ==
    \E i \in 1..Len(ptrs) :
        IsSet(ptrs[i]) /\ TimeMarshalText(ptrs[i][1]).err

(***************************************************************************)
(* GenerateXML of the two aggregate roots: [text, err].                    *)
(***************************************************************************)
URLSetGenerateXML(u) ==
    IF MarshalError([i \in 1..Len(u.URLs) |-> u.URLs[i].LastMod])
    THEN [text |-> <<>>, err |-> TRUE]
    ELSE [text |-> Header \o MarshalURLSet(u), err |-> FALSE]

SitemapIndexGenerateXML(si) ==
    IF MarshalError([i \in 1..Len(si.Sitemaps) |-> si.Sitemaps[i].LastMod])
    THEN [text |-> <<>>, err |-> TRUE]
    ELSE [text |-> Header \o MarshalSitemapIndex(si), err |-> FALSE]

(***************************************************************************)
(* The decoder's tokens.  ReadRoot gives the element tree of the first     *)
(* element of a text, read up to the first syntax error (an end of input   *)
(* inside an element, a mismatched end tag, a bad name or bad character    *)
(* data); every element whose end tag was not reached is marked            *)
(* incomplete.  The tree is computed from the positions of the tokens.     *)
(***************************************************************************)
\* Decoder.nsname: a name with one colon and two non-empty parts is split
\* into a space and a local name; more than one colon is no name.
ValidName(segs) == Len(segs) <= 2

NsName(segs) ==
    IF Len(segs) = 2 /\ segs[1] # "" /\ segs[2] # ""
    THEN [Space |-> segs[1], Local |-> <<segs[2]>>]
    ELSE [Space |-> "", Local |-> segs]

\* Whether a start tag is read without a syntax error.
ValidStart(t) ==
    /\ ValidName(t.name)
    /\ \A i \in 1..Len(t.attrs) :
          /\ ValidName(t.attrs[i].name)
          /\ ~ Unescape(t.attrs[i].value).err

SetMin(S) == CHOOSE x \in S : \A y \in S : x <= y
SetMax(S) == CHOOSE x \in S : \A y \in S : x >= y

\* The elements of a set of numbers in increasing order.
Sorted(S) ==
    [r \in 1..Cardinality(S) |->
        CHOOSE x \in S : Cardinality({y \in S : y < x}) = r - 1]

\* The number of elements open before each token: the decoder's stack depth.
OpenBefore(toks) ==
    [i \in 1..Len(toks) |->
        Cardinality({j \in 1..(i - 1) : toks[j].k = "start"})
        - Cardinality({j \in 1..(i - 1) : toks[j].k = "end"})]

\* The index of the first start tag, or 0: Unmarshal skips what precedes the
\* first element; an end tag or bad character data there is a syntax error.
FirstStart(toks) ==
    LET starts == {i \in 1..Len(toks) : toks[i].k = "start"}
        bad    == {i \in 1..Len(toks) :
                      \/ toks[i].k = "end"
                      \/ toks[i].k = "text" /\ Unescape(toks[i].data).err}
    IN  IF starts = {} THEN 0
        ELSE IF \E i \in bad : i < SetMin(starts) THEN 0
        ELSE SetMin(starts)

\* The start tag an end tag at index j closes, or 0 (open is OpenBefore).
StartOf(toks, open, j) ==
    LET cands == {i \in 1..(j - 1) :
                     toks[i].k = "start" /\ open[i] = open[j] - 1}
    IN  IF cands = {} THEN 0 ELSE SetMax(cands)

\* The index at which reading the element that starts at r stops: the first
\* token the decoder rejects, or Len(toks) + 1 when the input ends inside
\* the element, or the element's end tag.
StopIndex(toks, open, r) ==
    LET ends == {j \in (r + 1)..Len(toks) :
                    toks[j].k = "end" /\ open[j] = open[r] + 1}
        last == IF ends = {} THEN Len(toks) + 1 ELSE SetMin(ends)
        bad  == {j \in (r + 1)..Len(toks) :
                    /\ j <= last
                    /\ \/ toks[j].k = "text" /\ Unescape(toks[j].data).err
                       \/ toks[j].k = "start" /\ ~ ValidStart(toks[j])
                       \/ /\ toks[j].k = "end"
                          /\ toks[StartOf(toks, open, j)].name # toks[j].name}
    IN  IF bad = {} THEN last ELSE SetMin(bad)

\* Whether the element that starts at r was read to its end tag.
ReadToEnd(toks, open, r) ==
    LET stop == StopIndex(toks, open, r)
    IN  /\ stop <= Len(toks)
        /\ toks[stop].k = "end"
        /\ toks[stop].name = toks[r].name
        /\ open[stop] = open[r] + 1

\* The element that starts at index i, of which the tokens before index stop
\* were read: its children are the start tags one level below it, its text
\* the character data directly inside it.
RECURSIVE ReadElement(_, _, _, _)
ReadElement(toks, open, i, stop) ==
    LET ends == {j \in (i + 1)..(stop - 1) :
                    toks[j].k = "end" /\ open[j] = open[i] + 1}
        hi   == IF ends = {} THEN stop ELSE SetMin(ends)
        kids == Sorted({k \in (i + 1)..(hi - 1) :
                           toks[k].k = "start" /\ open[k] = open[i] + 1})
        text == Sorted({k \in (i + 1)..(hi - 1) :
                           toks[k].k = "text" /\ open[k] = open[i] + 1})
    IN  [written  |-> toks[i].name,
         name     |-> NsName(toks[i].name),
         attrs    |-> [a \in 1..Len(toks[i].attrs) |->
                         [name  |-> NsName(toks[i].attrs[a].name),
                          value |-> Unescape(toks[i].attrs[a].value).val]],
         kids     |-> [n \in 1..Len(kids) |->
                         ReadElement(toks, open, kids[n], hi)],
         text     |-> Flatten([n \in 1..Len(text) |->
                                  Unescape(toks[text[n]].data).val]),
         complete |-> ends # {}]

\* The element Unmarshal decodes: [found, root].  Unmarshal reads the first
\* element of the text and nothing after its end tag.
ReadRoot(toks) ==
    LET r    == FirstStart(toks)
        open == OpenBefore(toks)
        stop == StopIndex(toks, open, r)
        full == ReadToEnd(toks, open, r)
    IN  IF r = 0 \/ ~ ValidStart(toks[r])
        THEN [found |-> FALSE, root |-> <<>>]
        ELSE [found |-> TRUE,
              root  |-> <<ReadElement(toks, open, r,
                                      IF full THEN stop + 1 ELSE stop)>>]

(***************************************************************************)
(* xml.Unmarshal over the struct tags.  Fields gives, per struct type, the *)
(* element fields in declaration order and AttrFields the attribute        *)
(* fields; kind says how the field's value is read.                        *)
(***************************************************************************)
Field(tag, field, kind, elem) ==
    [tag |-> tag, field |-> field, kind |-> kind, elem |-> elem]

Fields(type) ==
    CASE type = "SitemapIndex" ->
            <<Field(TagSitemaps, "Sitemaps", "structs", "SitemapEntry")>>
      [] type = "SitemapEntry" ->
            <<Field(TagEntryLoc, "Loc", "string", ""),
              Field(TagEntryLastMod, "LastMod", "timeptr", "")>>
      [] type = "URLSet" ->
            <<Field(TagURLs, "URLs", "structs", "URL")>>
      [] type = "URL" ->
            <<Field(TagLoc, "Loc", "string", ""),
              Field(TagLastMod, "LastMod", "timeptr", ""),
              Field(TagChangeFreq, "ChangeFreq", "string", ""),
              Field(TagPriority, "Priority", "floatptr", ""),
              Field(TagImages, "Images", "structs", "Image"),
              Field(TagVideos, "Videos", "structs", "Video"),
              Field(TagAlternate, "Alternate", "structs", "Alternate")>>
      [] type = "Image" ->
            <<Field(TagImageLoc, "Loc", "string", ""),
              Field(TagImageCaption, "Caption", "string", ""),
              Field(TagImageTitle, "Title", "string", "")>>
      [] type = "Video" ->
            <<Field(TagVideoLoc, "Loc", "string", ""),
              Field(TagVideoThumbnailLoc, "ThumbnailLoc", "string", ""),
              Field(TagVideoTitle, "Title", "string", ""),
              Field(TagVideoDescription, "Description", "string", ""),
              Field(TagVideoContentLoc, "ContentLoc", "string", ""),
              Field(TagVideoDuration, "Duration", "int", ""),
              Field(TagVideoCategory, "Category", "string", ""),
              Field(TagVideoTags, "Tags", "strings", "")>>
      [] OTHER -> <<>>

AttrFields(type) ==
    CASE type = "URLSet" ->
            <<Field(TagXMLNS, "XMLNS", "string", ""),
              Field(TagXHTML, "XHTML", "string", ""),
              Field(TagImageNS, "Image", "string", ""),
              Field(TagVideoNS, "Video", "string", "")>>
      [] type = "Alternate" ->
            <<Field(TagRel, "Rel", "string", ""),
              Field(TagHrefLang, "HrefLang", "string", ""),
              Field(TagHref, "Href", "string", "")>>
      [] OTHER -> <<>>

\* The XMLName field's tag: the element name the type requires.
XMLName(type) ==
    CASE type = "SitemapIndex" -> TagSitemapIndex
      [] type = "URLSet" -> TagURLSet
      [] OTHER -> <<>>

Zero(type) ==
    CASE type = "SitemapIndex" -> ZeroSitemapIndex
      [] type = "SitemapEntry" -> SitemapEntry(<<>>, None)
      [] type = "URLSet" -> ZeroURLSet
      [] type = "URL" -> ZeroURL
      [] type = "Image" -> ZeroImage
      [] type = "Video" -> ZeroVideo
      [] type = "Alternate" -> ZeroAlternate

\* A field takes an element or attribute when its tag's name equals the
\* local name read (no field here names a namespace, so any space matches).
Matches(tag, name) == name.Local = tag

\* The first field that takes the name, or 0.
RECURSIVE FindField(_, _, _)
FindField(fields, name, i) ==
    IF i > Len(fields) THEN 0
    ELSE IF Matches(fields[i].tag, name) THEN i
    ELSE FindField(fields, name, i + 1)

\* copyValue into a string: the character data of the element.
UnmarshalString(node) == [val |-> node.text, err |-> ~ node.complete]

\* A *time.Time: allocated, then Time.UnmarshalText of the character data.
UnmarshalTimePtr(node) ==
    LET r == TimeUnmarshalText(node.text)
    IN  IF ~ node.complete \/ r.err THEN [val |-> None, err |-> TRUE]
        ELSE [val |-> Some(r.val), err |-> FALSE]

\* copyValue into a *float64: empty text is 0, else ParseFloat of the
\* trimmed text.
UnmarshalFloatPtr(node) ==
    LET r == ParseFloat(TrimSpace(node.text))
    IN  IF ~ node.complete THEN [val |-> None, err |-> TRUE]
        ELSE IF Len(node.text) = 0
        THEN [val |-> Some(Float(0, 0)), err |-> FALSE]
        ELSE IF r.err THEN [val |-> None, err |-> TRUE]
        ELSE [val |-> Some(r.val), err |-> FALSE]

\* copyValue into an int: empty text is 0, else ParseInt of the trimmed text.
UnmarshalInt(node) ==
    LET t == TrimSpace(node.text)
    IN  IF ~ node.complete THEN [val |-> 0, err |-> TRUE]
        ELSE IF Len(node.text) = 0 THEN [val |-> 0, err |-> FALSE]
        ELSE IF Len(t) = 0 \/ ~ AllDigits(t) THEN [val |-> 0, err |-> TRUE]
        ELSE [val |-> Atoi(t), err |-> FALSE]

\* The attribute fields of a struct, set from the start tag's attributes in
\* the order written.
RECURSIVE UnmarshalAttrs(_, _, _, _)
UnmarshalAttrs(type, val, attrs, i) ==
    IF i > Len(attrs) THEN val
    ELSE LET f == FindField(AttrFields(type), attrs[i].name, 1)
         IN  UnmarshalAttrs(type,
                 IF f = 0 THEN val
                 ELSE [val EXCEPT ![AttrFields(type)[f].field] =
                                      attrs[i].value],
                 attrs, i + 1)

RECURSIVE UnmarshalValue(_, _)
RECURSIVE UnmarshalStruct(_, _, _, _)
RECURSIVE UnmarshalField(_, _, _)

\* One child element of a struct: [val, err].  An element no field takes is
\* skipped; an element of a slice field grows the slice, and the slice is
\* cut back when reading the element fails.
UnmarshalField(type, val, kid) ==
    LET f == FindField(Fields(type), kid.name, 1)
        fd == Fields(type)[f]
        r == CASE fd.kind = "string" -> UnmarshalString(kid)
               [] fd.kind = "strings" -> UnmarshalString(kid)
               [] fd.kind = "timeptr" -> UnmarshalTimePtr(kid)
               [] fd.kind = "floatptr" -> UnmarshalFloatPtr(kid)
               [] fd.kind = "int" -> UnmarshalInt(kid)
               [] fd.kind = "structs" -> UnmarshalValue(fd.elem, kid)
    IN  IF f = 0 THEN [val |-> val, err |-> ~ kid.complete]
        ELSE IF r.err THEN [val |-> val, err |-> TRUE]
        ELSE IF fd.kind \in {"structs", "strings"}
        THEN [val |-> [val EXCEPT ![fd.field] = Append(@, r.val)],
              err |-> FALSE]
        ELSE [val |-> [val EXCEPT ![fd.field] = r.val], err |-> FALSE]

\* The child elements of a struct from the i-th on, in document order; the
\* first error ends the decoding and leaves what was set before it.
UnmarshalStruct(type, node, i, val) ==
    IF i > Len(node.kids) THEN [val |-> val, err |-> ~ node.complete]
    ELSE LET r == UnmarshalField(type, val, node.kids[i])
         IN  IF r.err THEN r
             ELSE UnmarshalStruct(type, node, i + 1, r.val)

\* Decoder.unmarshal into a struct: the XMLName check, the attributes, then
\* the child elements.
UnmarshalValue(type, node) ==
    IF XMLName(type) # <<>> /\ ~ Matches(XMLName(type), node.name)
    THEN [val |-> Zero(type), err |-> TRUE]
    ELSE UnmarshalStruct(type, node, 1,
                         UnmarshalAttrs(type, Zero(type), node.attrs, 1))

\* xml.Unmarshal(content, &out) with out the zero value of the type.
Unmarshal(type, toks) ==
    LET rd == ReadRoot(toks)
        r  == UnmarshalValue(type, rd.root[1])
    IN  IF ~ rd.found THEN [out |-> Zero(type), err |-> TRUE]
        ELSE [out |-> r.val, err |-> r.err]

ParseXMLUrlSet(text) == Unmarshal("URLSet", text)

ParseXMLSitemapIndex(text) == Unmarshal("SitemapIndex", text)

(***************************************************************************)
(* The URL builder.                                                        *)
(***************************************************************************)
\* priority := 0.5
DefaultPriority == Float(5, -1)

\* An option is the closure an option constructor returns: the constructor's
\* name and the parameter it captured (t, f, p, img or m; the others are
\* not part of that closure and stay at their zero values).
Closure(kind) ==
    [kind |-> kind, t |-> Time(0, 0, 0), f |-> <<>>, p |-> Float(0, 0),
     img |-> <<>>, m |-> <<>>]

WithLastMod(t) == [Closure("WithLastMod") EXCEPT !.t = t]
WithChangeFreq(f) == [Closure("WithChangeFreq") EXCEPT !.f = f]
WithPriority(p) == [Closure("WithPriority") EXCEPT !.p = p]
WithImages(img) == [Closure("WithImages") EXCEPT !.img = img]
WithVideosVideos(m) == [Closure("WithVideosVideos") EXCEPT !.m = m]

\* A variant of ApplyOption in which WithImages and WithVideosVideos assign.
ApplyOptionAssign(option, u) ==
    CASE option.kind = "WithLastMod" ->
            [u EXCEPT !.LastMod = Some(option.t)]
      [] option.kind = "WithChangeFreq" ->
            [u EXCEPT !.ChangeFreq = option.f]
      [] option.kind = "WithPriority" ->
            [u EXCEPT !.Priority = Some(option.p)]
      [] option.kind = "WithImages" ->
            [u EXCEPT !.Images = option.img]
      [] option.kind = "WithVideosVideos" ->
            [u EXCEPT !.Videos = option.m]

\* option(out): the closure applied to the URL under construction.
ApplyOption(option, u) ==
    CASE option.kind = "WithLastMod" ->
            [u EXCEPT !.LastMod = Some(option.t)]
      [] option.kind = "WithChangeFreq" ->
            [u EXCEPT !.ChangeFreq = option.f]
      [] option.kind = "WithPriority" ->
            [u EXCEPT !.Priority = Some(option.p)]
      [] option.kind = "WithImages" ->
            [u EXCEPT !.Images = @ \o option.img]
      [] option.kind = "WithVideosVideos" ->
            [u EXCEPT !.Videos = @ \o option.m]

\* A variant of ApplyOptions that ranges over the options last to first.
RECURSIVE ApplyOptionsBackwards(_, _)
ApplyOptionsBackwards(options, u) ==
    IF Len(options) = 0 THEN u
    ELSE ApplyOptionsBackwards(SubSeq(options, 1, Len(options) - 1),
                               ApplyOption(options[Len(options)], u))

\* for _, option := range options { option(out) }
RECURSIVE ApplyOptions(_, _)
ApplyOptions(options, u) ==
    IF Len(options) = 0 THEN u
    ELSE ApplyOptions(Tail(options), ApplyOption(Head(options), u))

\* A variant of MakeUrl that starts from a URL with nothing but its loc.
MakeUrlBare(loc, options, clock) ==
    ApplyOptions(options,
        [Loc        |-> loc,
         LastMod    |-> None,
         ChangeFreq |-> <<>>,
         Priority   |-> None,
         Images     |-> <<>>,
         Videos     |-> <<>>,
         Alternate  |-> <<>>])

\* MakeUrl(loc, options...) when the wall clock reads clock.
MakeUrl(loc, options, clock) ==
    ApplyOptions(options,
        [Loc        |-> loc,
         LastMod    |-> Some(UTC(clock)),
         ChangeFreq |-> ChangeFreqMonthly,
         Priority   |-> Some(DefaultPriority),
         Images     |-> <<>>,
         Videos     |-> <<>>,
         Alternate  |-> <<>>])

(***************************************************************************)
(* The aggregate roots.                                                    *)
(***************************************************************************)
MakeSitemapIndex(entries) == [xmlns |-> SitemapNS, Sitemaps |-> entries]

\* A variant of SitemapIndexAdd that puts the new entry first.
SitemapIndexAddFirst(si, loc, lastMod) ==
    [si EXCEPT !.Sitemaps = <<SitemapEntry(loc, Some(lastMod))>> \o @]

SitemapIndexAdd(si, loc, lastMod) ==
    [si EXCEPT !.Sitemaps = Append(@, SitemapEntry(loc, Some(lastMod)))]

MakeUrlSet ==
    [XMLNS |-> SitemapNS, XHTML |-> XhtmlNS, Image |-> <<>>, Video |-> <<>>,
     URLs |-> <<>>]

\* A variant of URLSetAdd that declares the image and video namespaces of
\* the URLs it is given.
URLSetAddDeclaring(u, newUrl) ==
    [u EXCEPT !.URLs = Append(@, newUrl),
              !.Image = IF Len(newUrl.Images) > 0
                        THEN <<"http://www.google.com/schemas/sitemap-image/1.1">>
                        ELSE @,
              !.Video = IF Len(newUrl.Videos) > 0
                        THEN <<"http://www.google.com/schemas/sitemap-video/1.1">>
                        ELSE @]

URLSetAdd(u, newUrl) == [u EXCEPT !.URLs = Append(@, newUrl)]

(***************************************************************************)
(* The values the operations are called with.                              *)
(***************************************************************************)
LocHome == <<"https://x/">>
LocQuery == <<"https://x/?a=1", "&", "b=", "'", "2", "'">>
LocOdd == <<" ", "<", "a", ">", "\n", "\"">>
Locs == {LocHome, LocQuery, LocOdd}

\* 2024-01-01T00:00:00Z
TimeNewYear == Time(1704067200, 0, 0)
\* 2024-02-29T18:04:56.12+05:30
TimeLeapDay == Time(1709210096, 120000000, 19800)
\* 1969-12-31T22:59:59.000000005-01:00
TimeBeforeEpoch == Time(-1, 5, -3600)

\* The wall clock, in a local zone one hour east of UTC.
ClockStart == Time(1704067200, 987654321, 3600)

ImageA == Image(<<"a.png">>, <<"A", "&", "B">>, <<"t">>)
ImageB == Image(<<"b.png">>, <<>>, <<>>)
VideoA ==
    Video(<<"v.mp4">>, <<"v.png">>, <<"T", "<", "1", ">">>, <<"d">>,
          <<"c.mp4">>, 90, <<"cat">>, <<<<"x">>, <<"y", "&", "z">>>>)
VideoB == Video(<<"w.mp4">>, <<>>, <<>>, <<>>, <<>>, 0, <<>>, <<>>)
AlternateDe ==
    Alternate(<<"alternate">>, <<"de">>, <<"https://x/de?a", "&", "b">>)
AlternateFr ==
    Alternate(<<"alternate">>, <<"fr">>, <<"https://x/fr">>)

\* The URLs added to a set: built by MakeUrl, or written as struct literals
\* (the only way to a URL with an unset lastMod, changeFreq or priority, or
\* with alternates).
UrlPool ==
    {MakeUrl(LocHome, <<>>, ClockStart),
     MakeUrl(LocQuery, <<WithLastMod(TimeLeapDay),
                         WithChangeFreq(ChangeFreqDaily),
                         WithPriority(Float(3, -1))>>, ClockStart),
     MakeUrl(LocOdd, <<WithLastMod(TimeBeforeEpoch),
                       WithChangeFreq(ChangeFreqNever),
                       WithPriority(Float(1, 0))>>, ClockStart),
     MakeUrl(LocHome, <<WithPriority(Float(0, 0)),
                        WithLastMod(TimeNewYear)>>, ClockStart),
     MakeUrl(LocHome, <<WithImages(<<ImageA>>)>>, ClockStart),
     MakeUrl(LocQuery, <<WithImages(<<ImageA, ImageB>>),
                         WithVideosVideos(<<VideoB>>)>>, ClockStart),
     MakeUrl(LocHome, <<WithVideosVideos(<<VideoA>>),
                        WithPriority(Float(25, -2))>>, ClockStart),
     [MakeUrl(LocQuery, <<>>, ClockStart) EXCEPT
         !.Alternate = <<AlternateDe, AlternateFr>>],
     [ZeroURL EXCEPT !.Loc = LocHome],
     [ZeroURL EXCEPT !.Loc = LocQuery, !.LastMod = Some(TimeLeapDay)],
     [ZeroURL EXCEPT !.Loc = LocHome, !.ChangeFreq = ChangeFreqWeekly],
     [ZeroURL EXCEPT !.Loc = LocOdd, !.Priority = Some(Float(9, -1))]}

\* The options of a MakeUrl call.
OptionPool ==
    {WithLastMod(TimeNewYear), WithLastMod(TimeLeapDay),
     WithChangeFreq(ChangeFreqDaily), WithChangeFreq(<<>>),
     WithPriority(Float(9, -1)), WithPriority(Float(3, -1)),
     WithImages(<<ImageA>>), WithImages(<<ImageB, ImageA>>),
     WithVideosVideos(<<VideoA>>), WithVideosVideos(<<VideoB>>)}

\* The entries of a sitemap index: given to MakeSitemapIndex (lastMod may be
\* unset) or passed to Add.
IndexLocs == {LocHome, LocQuery}
IndexTimes == {TimeNewYear, TimeLeapDay}
EntryPool ==
    {SitemapEntry(LocHome, None), SitemapEntry(LocQuery, Some(TimeNewYear)),
     SitemapEntry(LocOdd, Some(TimeBeforeEpoch))}

(***************************************************************************)
(* The state after construction.                                           *)
(***************************************************************************)
NoArgs == [loc |-> <<>>, options |-> <<>>, clock |-> ClockStart]
NoOrigin == [type |-> "", full |-> 0, cut |-> 0, trailing |-> FALSE]

InitBuilder ==
    /\ now = ClockStart
    /\ url = None
    /\ urlArgs = NoArgs

InitUrlSet ==
    /\ set = MakeUrlSet
    /\ setXml = None
    /\ setParsed = None

InitIndexOf(entries) ==
    /\ initial = entries
    /\ index = MakeSitemapIndex(entries)
    /\ added = <<>>
    /\ indexXml = None
    /\ indexParsed = None

InitContent ==
    /\ content = <<>>
    /\ origin = NoOrigin

Init == InitBuilder /\ InitUrlSet /\ InitIndexOf(<<>>) /\ InitContent

builderVars == <<now, url, urlArgs>>
urlSetVars == <<set, setXml, setParsed>>
indexVars == <<index, initial, added, indexXml, indexParsed>>
contentVars == <<content, origin>>

(***************************************************************************)
(* The URL set: Add, GenerateXML, and ParseXMLUrlSet of the generated      *)
(* text.  setXml and setParsed are results for the set as it is: a caller  *)
(* that adds a URL holds them no longer.                                   *)
(***************************************************************************)
AddUrl ==
    /\ Len(set.URLs) < MaxUrls
    /\ \E u \in UrlPool : set' = URLSetAdd(set, u)
    /\ setXml' = None
    /\ setParsed' = None
    /\ UNCHANGED <<builderVars, indexVars, contentVars>>

GenerateUrlSet ==
    /\ setXml = None
    /\ setXml' = Some(URLSetGenerateXML(set))
    /\ UNCHANGED <<set, setParsed, builderVars, indexVars, contentVars>>

ParseUrlSet ==
    /\ IsSet(setXml)
    /\ ~ setXml[1].err
    /\ setParsed = None
    /\ setParsed' = Some(ParseXMLUrlSet(setXml[1].text))
    /\ UNCHANGED <<set, setXml, builderVars, indexVars, contentVars>>

Next == AddUrl \/ GenerateUrlSet \/ ParseUrlSet

Spec == Init /\ [][Next]_vars

(***************************************************************************)
(* The URL builder: MakeUrl called with a location and a list of options,  *)
(* while the wall clock advances.                                          *)
(***************************************************************************)
Tick ==
    /\ now.sec - ClockStart.sec < MaxTicks
    /\ now' = [now EXCEPT !.sec = @ + 1]
    /\ UNCHANGED <<url, urlArgs, urlSetVars, indexVars, contentVars>>

CallMakeUrl ==
    /\ url = None
    /\ \E loc \in Locs, options \in SeqUpTo(OptionPool, MaxOptions) :
          /\ url' = Some(MakeUrl(loc, options, now))
          /\ urlArgs' = [loc |-> loc, options |-> options, clock |-> now]
    /\ UNCHANGED <<now, urlSetVars, indexVars, contentVars>>

\* The caller lets go of the URL.
ReleaseUrl ==
    /\ IsSet(url)
    /\ url' = None
    /\ urlArgs' = NoArgs
    /\ UNCHANGED <<now, urlSetVars, indexVars, contentVars>>

NextBuilder == Tick \/ CallMakeUrl \/ ReleaseUrl

SpecBuilder == Init /\ [][NextBuilder]_vars

(***************************************************************************)
(* The sitemap index: MakeSitemapIndex, Add, GenerateXML, and              *)
(* ParseXMLSitemapIndex of the generated text.                             *)
(***************************************************************************)
InitIndex ==
    /\ InitBuilder /\ InitUrlSet /\ InitContent
    /\ \E entries \in SeqUpTo(EntryPool, MaxInitial) : InitIndexOf(entries)

AddEntry ==
    /\ Len(added) < MaxAdds
    /\ \E loc \in IndexLocs, lastMod \in IndexTimes :
          /\ index' = SitemapIndexAdd(index, loc, lastMod)
          /\ added' = Append(added, [loc |-> loc, lastMod |-> lastMod])
    /\ indexXml' = None
    /\ indexParsed' = None
    /\ UNCHANGED <<initial, builderVars, urlSetVars, contentVars>>

GenerateIndex ==
    /\ indexXml = None
    /\ indexXml' = Some(SitemapIndexGenerateXML(index))
    /\ UNCHANGED <<index, initial, added, indexParsed,
                   builderVars, urlSetVars, contentVars>>

ParseIndex ==
    /\ IsSet(indexXml)
    /\ ~ indexXml[1].err
    /\ indexParsed = None
    /\ indexParsed' = Some(ParseXMLSitemapIndex(indexXml[1].text))
    /\ UNCHANGED <<index, initial, added, indexXml,
                   builderVars, urlSetVars, contentVars>>

NextIndex == AddEntry \/ GenerateIndex \/ ParseIndex

SpecIndex == InitIndex /\ [][NextIndex]_vars

(***************************************************************************)
(* The parsers on a text: a generated text as it is, cut off after some of *)
(* its tokens (what follows is missing, as with an unterminated tag), or   *)
(* followed by an unterminated tag after the root element's end tag.       *)
(***************************************************************************)
ParseUrlPool ==
    {MakeUrl(LocQuery, <<WithLastMod(TimeLeapDay)>>, ClockStart),
     MakeUrl(LocHome, <<WithImages(<<ImageB>>)>>, ClockStart),
     [ZeroURL EXCEPT !.Loc = LocOdd]}

UnterminatedTag == StartElement(<<"u">>, <<>>)

\* The texts made of a generated text: every cut, and the trailing tag.
InitContentOf(type, text) ==
    \/ \E cut \in 0..Len(text) :
          /\ content = SubSeq(text, 1, cut)
          /\ origin = [type |-> type, full |-> Len(text), cut |-> cut,
                       trailing |-> FALSE]
    \/ /\ content = Append(text, UnterminatedTag)
       /\ origin = [type |-> type, full |-> Len(text), cut |-> Len(text),
                    trailing |-> TRUE]

InitParse ==
    /\ InitBuilder
    /\ setXml = None /\ setParsed = None
    /\ added = <<>> /\ indexXml = None /\ indexParsed = None
    /\ \/ \E urls \in SeqUpTo(ParseUrlPool, MaxUrls) :
             /\ set = [MakeUrlSet EXCEPT !.URLs = urls]
             /\ initial = <<>>
             /\ index = MakeSitemapIndex(<<>>)
             /\ InitContentOf("URLSet", URLSetGenerateXML(set).text)
       \/ \E entries \in SeqUpTo(EntryPool, MaxEntries) :
             /\ set = MakeUrlSet
             /\ initial = entries
             /\ index = MakeSitemapIndex(entries)
             /\ InitContentOf("SitemapIndex",
                              SitemapIndexGenerateXML(index).text)

ParseContentAsUrlSet ==
    /\ setParsed = None
    /\ setParsed' = Some(ParseXMLUrlSet(content))
    /\ UNCHANGED <<set, setXml, builderVars, indexVars, contentVars>>

ParseContentAsIndex ==
    /\ indexParsed = None
    /\ indexParsed' = Some(ParseXMLSitemapIndex(content))
    /\ UNCHANGED <<index, initial, added, indexXml,
                   builderVars, urlSetVars, contentVars>>

NextParse == ParseContentAsUrlSet \/ ParseContentAsIndex

SpecParse == InitParse /\ [][NextParse]_vars

(***************************************************************************)
(* Properties.                                                             *)
(***************************************************************************)
\* The URL has its lastMod, changeFreq and priority set.
AllSet(u) == IsSet(u.LastMod) /\ u.ChangeFreq # <<>> /\ IsSet(u.Priority)

\* C1: for a set made by MakeUrlSet and one Add of a URL with loc, lastMod,
\* changeFreq and priority set, GenerateXML succeeds, ParseXMLUrlSet of its
\* text succeeds, and the parsed set has exactly one URL, with the same loc,
\* lastMod (instant and zone offset), changeFreq and priority.
C1_UrlRoundTrip ==
    (Len(set.URLs) = 1 /\ AllSet(set.URLs[1])) =>
        /\ IsSet(setXml) => ~ setXml[1].err
        /\ IsSet(setParsed) =>
              /\ ~ setParsed[1].err
              /\ Len(setParsed[1].out.URLs) = 1
              /\ setParsed[1].out.URLs[1].Loc = set.URLs[1].Loc
              /\ setParsed[1].out.URLs[1].LastMod = set.URLs[1].LastMod
              /\ setParsed[1].out.URLs[1].ChangeFreq = set.URLs[1].ChangeFreq
              /\ setParsed[1].out.URLs[1].Priority = set.URLs[1].Priority

\* A URL whose loc needs escaping and whose lastMod has a fraction and a
\* zone offset has gone through GenerateXML and ParseXMLUrlSet.
C1_Witness ==
    /\ IsSet(setParsed)
    /\ Len(set.URLs) = 1
    /\ AllSet(set.URLs[1])
    /\ set.URLs[1].Loc = LocQuery
    /\ set.URLs[1].LastMod = Some(TimeLeapDay)
    /\ Len(setParsed[1].out.URLs) = 1

\* C3: for a set that holds one URL, the URL parsed back from the generated
\* text has the same images, videos (tags included) and alternates, element
\* by element and in the same order.
C3_GraphRoundTrip ==
    (IsSet(setParsed) /\ Len(set.URLs) = 1) =>
        /\ ~ setParsed[1].err
        /\ Len(setParsed[1].out.URLs) = 1
        /\ setParsed[1].out.URLs[1].Images = set.URLs[1].Images
        /\ setParsed[1].out.URLs[1].Videos = set.URLs[1].Videos
        /\ setParsed[1].out.URLs[1].Alternate = set.URLs[1].Alternate

\* The positions of the start tags of a name in a text, in order.
StartsOf(text, tag) ==
    Sorted({i \in 1..Len(text) : text[i].k = "start" /\ text[i].name = tag})

EndsOf(text, tag) ==
    Sorted({i \in 1..Len(text) : text[i].k = "end" /\ text[i].name = tag})

\* The number of start tags of a name between two positions of a text.
CountIn(text, tag, from, to) ==
    Cardinality({i \in from..to : text[i].k = "start" /\ text[i].name = tag})

\* C7: in the text GenerateXML gives for the set, there is one url element
\* per URL, and in the i-th one a lastmod, changefreq and priority element
\* appears exactly when the i-th URL's lastMod is present, its changeFreq is
\* a non-empty string and its priority is present, and there are as many
\* image:image, video:video and xhtml:link elements as the URL has images,
\* videos and alternates (none when it has none).
C7_OptionalParts ==
    (IsSet(setXml) /\ ~ setXml[1].err) =>
        LET text   == setXml[1].text
            starts == StartsOf(text, TagURLs)
            ends   == EndsOf(text, TagURLs)
            Count(i, tag) == CountIn(text, tag, starts[i], ends[i])
        IN  /\ Len(starts) = Len(set.URLs)
            /\ Len(ends) = Len(set.URLs)
            /\ \A i \in 1..Len(set.URLs) :
                  /\ Count(i, TagLoc) = 1
                  /\ Count(i, TagLastMod)
                        = (IF IsSet(set.URLs[i].LastMod) THEN 1 ELSE 0)
                  /\ Count(i, TagChangeFreq)
                        = (IF set.URLs[i].ChangeFreq # <<>> THEN 1 ELSE 0)
                  /\ Count(i, TagPriority)
                        = (IF IsSet(set.URLs[i].Priority) THEN 1 ELSE 0)
                  /\ Count(i, TagImages) = Len(set.URLs[i].Images)
                  /\ Count(i, TagVideos) = Len(set.URLs[i].Videos)
                  /\ Count(i, TagAlternate) = Len(set.URLs[i].Alternate)

\* A text was generated for a set that holds a URL with nothing but its loc
\* set and a URL with images.
C7_Witness ==
    /\ IsSet(setXml)
    /\ Len(set.URLs) = 2
    /\ set.URLs[1] = [ZeroURL EXCEPT !.Loc = LocHome]
    /\ Len(set.URLs[2].Images) = 2

\* The attributes of the root element's start tag in a generated text.
RootAttrs(text) == text[FirstStart(text)].attrs

HasAttr(attrs, tag) == \E i \in 1..Len(attrs) : attrs[i].name = tag

\* C9: in every state reached from MakeUrlSet() by Add calls, the set's
\* sitemap namespace is http://www.sitemaps.org/schemas/sitemap/0.9, its
\* xhtml namespace is http://www.w3.org/1999/xhtml, its image and video
\* namespaces are unset, and the text GenerateXML gives has neither an
\* xmlns:image nor an xmlns:video attribute.
C9_Namespaces ==
    /\ set.XMLNS = <<"http://www.sitemaps.org/schemas/sitemap/0.9">>
    /\ set.XHTML = <<"http://www.w3.org/1999/xhtml">>
    /\ set.Image = <<>>
    /\ set.Video = <<>>
    /\ (IsSet(setXml) /\ ~ setXml[1].err) =>
          /\ ~ HasAttr(RootAttrs(setXml[1].text), TagImageNS)
          /\ ~ HasAttr(RootAttrs(setXml[1].text), TagVideoNS)

\* A text was generated for a set to which a URL with images and a URL with
\* videos were added.
C9_Witness ==
    /\ IsSet(setXml)
    /\ \E i \in 1..Len(set.URLs) : Len(set.URLs[i].Images) > 0
    /\ \E i \in 1..Len(set.URLs) : Len(set.URLs[i].Videos) > 0

\* The position of the last option of a kind in an argument list, 0 if none.
LastOf(options, kind) ==
    SetMax({0} \cup {i \in 1..Len(options) : options[i].kind = kind})

\* C4: in the URL MakeUrl returns, the priority, changeFreq and lastMod are
\* the ones given by the last WithPriority, WithChangeFreq and WithLastMod
\* option of the argument list, whatever other options stand between or
\* after them.
C4_LastOverwriteWins ==
    IsSet(url) =>
        LET options == urlArgs.options
            p == LastOf(options, "WithPriority")
            f == LastOf(options, "WithChangeFreq")
            t == LastOf(options, "WithLastMod")
        IN  /\ p > 0 => url[1].Priority = Some(options[p].p)
            /\ f > 0 => url[1].ChangeFreq = options[f].f
            /\ t > 0 => url[1].LastMod = Some(options[t].t)

\* MakeUrl was called with WithPriority(0.9), an option of another kind and
\* WithPriority(0.3), and returned a URL of priority 0.3.
C4_Witness ==
    /\ IsSet(url)
    /\ Len(urlArgs.options) = 3
    /\ urlArgs.options[1] = WithPriority(Float(9, -1))
    /\ urlArgs.options[2].kind # "WithPriority"
    /\ urlArgs.options[3] = WithPriority(Float(3, -1))
    /\ url[1].Priority = Some(Float(3, -1))

\* The images and the videos an argument list gives, in argument order.
RECURSIVE GivenImages(_)
GivenImages(options) ==
    IF options = <<>> THEN <<>>
    ELSE (IF Head(options).kind = "WithImages" THEN Head(options).img
          ELSE <<>>) \o GivenImages(Tail(options))

RECURSIVE GivenVideos(_)
GivenVideos(options) ==
    IF options = <<>> THEN <<>>
    ELSE (IF Head(options).kind = "WithVideosVideos" THEN Head(options).m
          ELSE <<>>) \o GivenVideos(Tail(options))

IsAppend(option) == option.kind \in {"WithImages", "WithVideosVideos"}

\* C5: the images of the URL MakeUrl returns are the sequences given to the
\* WithImages options, concatenated in argument order, its videos those
\* given to the WithVideosVideos options, and its loc, lastMod, changeFreq
\* and priority are what the same call without these options returns.
C5_AppendsAccumulate ==
    IsSet(url) =>
        LET options == urlArgs.options
            others  == SelectSeq(options, LAMBDA o : ~ IsAppend(o))
            plain   == MakeUrl(urlArgs.loc, others, urlArgs.clock)
        IN  /\ url[1].Images = GivenImages(options)
            /\ url[1].Videos = GivenVideos(options)
            /\ url[1].Loc = urlArgs.loc
            /\ url[1].Loc = plain.Loc
            /\ url[1].LastMod = plain.LastMod
            /\ url[1].ChangeFreq = plain.ChangeFreq
            /\ url[1].Priority = plain.Priority

\* MakeUrl was called with two WithImages options and returned a URL with
\* the images of the first followed by the images of the second.
C5_Witness ==
    /\ IsSet(url)
    /\ Len(urlArgs.options) >= 2
    /\ urlArgs.options[1] = WithImages(<<ImageB, ImageA>>)
    /\ urlArgs.options[2] = WithImages(<<ImageA>>)
    /\ SubSeq(url[1].Images, 1, 3) = <<ImageB, ImageA, ImageA>>

\* C6: MakeUrl(loc) without options returns a URL with that loc, changeFreq
\* monthly, priority present and 0.5, lastMod present (the clock reading at
\* the call, in UTC), and no images, videos or alternates.
C6_Defaults ==
    (IsSet(url) /\ urlArgs.options = <<>>) =>
        /\ url[1].Loc = urlArgs.loc
        /\ url[1].ChangeFreq = <<"monthly">>
        /\ url[1].Priority = Some(Float(5, -1))
        /\ IsSet(url[1].LastMod)
        /\ url[1].LastMod[1].sec = urlArgs.clock.sec
        /\ url[1].LastMod[1].nsec = urlArgs.clock.nsec
        /\ url[1].LastMod[1].off = 0
        /\ url[1].Images = <<>>
        /\ url[1].Videos = <<>>
        /\ url[1].Alternate = <<>>

\* MakeUrl was called without options after the clock had advanced.
C6_Witness ==
    /\ IsSet(url)
    /\ urlArgs.options = <<>>
    /\ urlArgs.loc = LocHome
    /\ urlArgs.clock.sec > ClockStart.sec

\* C2: for an index made by MakeSitemapIndex and extended by Add calls, the
\* text of GenerateXML parses without error into an index with as many
\* entries, each with the loc and the lastMod of the entry at the same
\* position.
C2_IndexRoundTrip ==
    /\ IsSet(indexXml) => ~ indexXml[1].err
    /\ IsSet(indexParsed) =>
          /\ ~ indexParsed[1].err
          /\ Len(indexParsed[1].out.Sitemaps) = Len(index.Sitemaps)
          /\ \A i \in 1..Len(index.Sitemaps) :
                /\ indexParsed[1].out.Sitemaps[i].Loc = index.Sitemaps[i].Loc
                /\ indexParsed[1].out.Sitemaps[i].LastMod
                      = index.Sitemaps[i].LastMod

\* An index extended by three Add calls, of different locs, has gone through
\* GenerateXML and ParseXMLSitemapIndex.
C2_Witness ==
    /\ IsSet(indexParsed)
    /\ Len(added) = 3
    /\ added[1].loc # added[2].loc
    /\ added[2].lastMod # added[3].lastMod
    /\ Len(indexParsed[1].out.Sitemaps) = Len(initial) + 3

\* C10: after MakeSitemapIndex(initial) and the Add calls recorded in added,
\* the index holds the initial entries, unchanged, followed by one entry per
\* call, in call order, each with the loc of its call and a lastMod that is
\* present and equal to the one of its call.
C10_AddAppendsOne ==
    /\ Len(index.Sitemaps) = Len(initial) + Len(added)
    /\ \A i \in 1..Len(initial) : index.Sitemaps[i] = initial[i]
    /\ \A i \in 1..Len(added) :
          /\ index.Sitemaps[Len(initial) + i].Loc = added[i].loc
          /\ index.Sitemaps[Len(initial) + i].LastMod = Some(added[i].lastMod)
    /\ index.xmlns = <<"http://www.sitemaps.org/schemas/sitemap/0.9">>

\* Add was called three times, with different lastMods, on an index made
\* with one entry.
C10_Witness ==
    /\ Len(initial) = 1
    /\ Len(added) = 3
    /\ added[1].lastMod # added[3].lastMod
    /\ Len(index.Sitemaps) = 4

\* The text is not well-formed: it stops before its last token, or an
\* unterminated tag follows the root element.
Malformed == origin.cut < origin.full \/ origin.trailing

\* C8: ParseXMLUrlSet and ParseXMLSitemapIndex of a text that is not
\* well-formed return an error, and the structure they return has no
\* entries.
C8_MalformedGivesNothing ==
    /\ (IsSet(setParsed) /\ Malformed) =>
          /\ setParsed[1].err
          /\ setParsed[1].out.URLs = <<>>
    /\ (IsSet(indexParsed) /\ Malformed) =>
          /\ indexParsed[1].err
          /\ indexParsed[1].out.Sitemaps = <<>>

=============================================================================
